---- MODULE Spec2Model ----
(***************************************************************************)
(* Model of ise_efficient_frontier/efficientfrontier.py: the two public    *)
(* portfolio functions min_risk and max_sharpe and the generic wrapper     *)
(* _minimize_objective around scipy.optimize.minimize.                     *)
(*                                                                         *)
(* Numbers.  Weights are fixed-point: the integer k stands for k / Scale.  *)
(* A float that is not a number (the 0/0 of x0 /= x0) is the value NaN in  *)
(* a weight vector.  An objective value is a record: a fraction num / den  *)
(* with den > 0, or one of the float specials "inf", "-inf", "nan", or     *)
(* "raise" when numpy raises ValueError for operands whose shapes do not   *)
(* match.                                                                  *)
(*                                                                         *)
(* Solver.  scipy.optimize.minimize is library code.  It is modelled by    *)
(* what it does with the problem the wrapper hands it: it evaluates the    *)
(* objective at its iterates (starting with x0), an exception of the       *)
(* objective propagates to the caller, it moves between points that obey   *)
(* the bounds and the linear equality constraint, it reports success at a  *)
(* point that satisfies the constraint and has no better feasible          *)
(* neighbour, and it reports failure (success = False) when the objective  *)
(* value it is fed is not finite, leaving the iterate or NaN in res.x.     *)
(***************************************************************************)
EXTENDS Integers, Sequences, FiniteSets, TLC

\* Largest number of securities, and largest matrix side, that is tried.
MaxN == 2
\* Fixed-point resolution: the weight 1.0 is the integer Scale.
Scale == 4
\* Number of states of the process-wide random generator.
RngPeriod == 2

\* Variances tried on the diagonal of the covariance matrix.
VarVals == {0, 1, 4}
\* Expected returns tried.
RetVals == {0, 1}
\* Values of one random draw tried: 0.0, the smallest and the largest other one.
RandVals == {0, 1, Scale - 1}

\* float('nan') inside a weight vector; real weights lie in -Scale..Scale.
NaN == 3 * Scale

VARIABLES
    pc,                   \* position of the program
    op,                   \* the public function that was called
    expected_returns,     \* argument of min_risk / max_sharpe
    covariance,           \* argument of min_risk / max_sharpe
    objective,            \* the closure handed to _minimize_objective
    n_securities,         \* argument of _minimize_objective
    non_negative_weights, \* argument of _minimize_objective
    rng_state,            \* state of numpy's global random generator
    x0,                   \* the initial guess after x0 /= x0
    bounds,               \* the bounds list handed to the solver
    x,                    \* the solver's iterate, then res.x
    fx,                   \* objective value at x, as fed to the solver
    success,              \* res.success
    outcome,              \* what the caller gets: "value" or "error"
    result                \* the returned weight vector

vars == <<pc, op, expected_returns, covariance, objective, n_securities,
          non_negative_weights, rng_state, x0, bounds, x, fx, success,
          outcome, result>>

----------------------------------------------------------------------------
\* Inputs

Min2(a, b) == IF a < b THEN a ELSE b

\* A rows x cols matrix with d on its diagonal and 0 elsewhere.
DiagMatrix(rows, cols, d) ==
    [i \in 1..rows |-> [j \in 1..cols |-> IF i = j THEN d[i] ELSE 0]]

\* The covariance arguments tried: every shape up to MaxN x MaxN.
Covariances ==
    UNION { { DiagMatrix(rows, cols, d) : d \in [1..Min2(rows, cols) -> VarVals] } :
            <<rows, cols>> \in (1..MaxN) \X (1..MaxN) }

\* The expected_returns arguments tried: every length up to MaxN.
Returns == UNION { [1..m -> RetVals] : m \in 1..MaxN }

\* covariance.shape[0] and covariance.shape[1]
Shape0(cov) == Len(cov)
Shape1(cov) == Len(cov[1])

----------------------------------------------------------------------------
\* Arithmetic of the objective functions

RECURSIVE SumTo(_, _)
SumTo(f, k) == IF k = 0 THEN 0 ELSE f[k] + SumTo(f, k - 1)

\* sum(w) for a vector without NaN
Sum(w) == SumTo(w, Len(w))

HasNaN(w) == \E i \in 1..Len(w) : w[i] = NaN

\* np.dot(u, v) of two 1-D arrays of the same length
Dot(u, v) == SumTo([i \in 1..Len(u) |-> u[i] * v[i]], Len(u))

\* np.matmul(v, M) of a 1-D array and a 2-D array with Len(v) rows
VecMat(v, M) == [j \in 1..Shape1(M) |-> SumTo([i \in 1..Len(v) |-> v[i] * M[i][j]], Len(v))]

Raise == [t |-> "raise", num |-> 0, den |-> 1]
FNaN == [t |-> "nan", num |-> 0, den |-> 1]
FInf == [t |-> "inf", num |-> 0, den |-> 1]
FNegInf == [t |-> "-inf", num |-> 0, den |-> 1]
NoValue == [t |-> "none", num |-> 0, den |-> 1]
Num(n, d) == [t |-> "num", num |-> n, den |-> d]

\* Float division p / q as numpy does it: no exception, inf or nan for q = 0.
FloatDiv(p, q) ==
    IF q = 0
    THEN (IF p = 0 THEN FNaN ELSE IF p > 0 THEN FInf ELSE FNegInf)
    ELSE IF q > 0 THEN Num(p, q) ELSE Num(0 - p, 0 - q)

\* np.matmul(np.matmul(x.T, covariance), x): ValueError unless the shapes fit.
QuadShapesFit(w, cov) == Len(w) = Shape0(cov) /\ Shape1(cov) = Len(w)
Quad(w, cov) == Dot(VecMat(w, cov), w)

\* lambda x: np.matmul(np.matmul(x.T, covariance), x)
Variance(w, cov) ==
    IF ~QuadShapesFit(w, cov) THEN Raise
    ELSE IF HasNaN(w) THEN FNaN
    ELSE Num(Quad(w, cov), Scale * Scale)

\* lambda x: -np.dot(x, expected_returns) / np.matmul(np.matmul(x.T, covariance), x)
NegSharpe(w, r, cov) ==
    IF Len(w) # Len(r) THEN Raise
    ELSE IF ~QuadShapesFit(w, cov) THEN Raise
    ELSE IF HasNaN(w) THEN FNaN
    ELSE FloatDiv((0 - Dot(w, r)) * Scale, Quad(w, cov))

NoObjective == [kind |-> "none", covariance |-> <<>>, expected_returns |-> <<>>]

\* min_risk's closure as it would be had it been copied from max_sharpe.
MinRiskObjective_UsesReturns(r, cov) ==
    [kind |-> "neg_sharpe", covariance |-> cov, expected_returns |-> r]

\* The closure min_risk builds: it captures covariance only.
MinRiskObjective(r, cov) ==
    [kind |-> "variance", covariance |-> cov, expected_returns |-> <<>>]

\* The closure max_sharpe builds: it captures both arguments.
MaxSharpeObjective(r, cov) ==
    [kind |-> "neg_sharpe", covariance |-> cov, expected_returns |-> r]

\* Calling the closure at w.
Eval(obj, w) ==
    IF obj.kind = "variance" THEN Variance(w, obj.covariance)
    ELSE NegSharpe(w, obj.expected_returns, obj.covariance)

Finite(v) == v.t = "num"
NonFinite(v) == v.t \in {"nan", "inf", "-inf"}

\* a < b on floats: false when either is nan.
Less(a, b) ==
    CASE a.t = "num" /\ b.t = "num" -> a.num * b.den < b.num * a.den
      [] a.t = "-inf" -> b.t \in {"num", "inf"}
      [] a.t = "num" -> b.t = "inf"
      [] OTHER -> FALSE

----------------------------------------------------------------------------
\* _minimize_objective

\* np.random.random(size=n): n floats, each in [0, 1).
RandomDraws(n) == [1..n -> RandVals]

\* x0 /= x0, elementwise float division: 0/0 is nan, d/d is 1 otherwise.
SelfDivide(d) ==
    [i \in 1..Len(d) |-> IF d[i] = 0 THEN NaN ELSE (d[i] * Scale) \div d[i]]

\* The bounds list one pair short: range(n_securities - 1).
Bounds_OnePairShort(n, nonneg) ==
    [i \in 1..(n - 1) |-> <<(IF nonneg THEN 0 ELSE 0 - Scale), Scale>>]

\* [[0. if non_negative_weights else -1., 1.] for _ in range(n_securities)]
Bounds(n, nonneg) ==
    [i \in 1..n |-> <<(IF nonneg THEN 0 ELSE 0 - Scale), Scale>>]

Ones(n) == [i \in 1..n |-> Scale]
AllNaN(n) == [i \in 1..n |-> NaN]

InBounds(w, bnds) ==
    /\ Len(w) = Len(bnds)
    /\ \A i \in 1..Len(w) : bnds[i][1] <= w[i] /\ w[i] <= bnds[i][2]

\* The constraint {'type': 'eq', 'fun': lambda w: 1-sum(w)}
Constraint(w) == Scale - Sum(w)

\* Points that obey the bounds and the equality constraint: the last weight
\* is what the others leave of 1.
Feasible(n, bnds) ==
    { w \in { Append(u, Scale - Sum(u)) : u \in [1..(n - 1) -> (0 - Scale)..Scale] } :
        InBounds(w, bnds) }

\* Feasible points one exchange of 1/Scale away from w.
Neighbours(w, bnds) ==
    { v \in { [w EXCEPT ![p[1]] = @ + 1, ![p[2]] = @ - 1] :
                p \in { q \in (1..Len(w)) \X (1..Len(w)) : q[1] # q[2] } } :
        InBounds(v, bnds) }

\* The solver's success test: feasible, and no feasible neighbour is better.
IsLocalMin(obj, w, bnds) ==
    /\ ~HasNaN(w)
    /\ InBounds(w, bnds)
    /\ Constraint(w) = 0
    /\ Finite(Eval(obj, w))
    /\ \A v \in Neighbours(w, bnds) : ~Less(Eval(obj, v), Eval(obj, w))

----------------------------------------------------------------------------
\* The program

Init ==
    /\ pc = "idle"
    /\ op = "none"
    /\ expected_returns = <<>>
    /\ covariance = <<>>
    /\ objective = NoObjective
    /\ n_securities = 0
    /\ non_negative_weights = TRUE
    /\ rng_state = 0
    /\ x0 = <<>>
    /\ bounds = <<>>
    /\ x = <<>>
    /\ fx = NoValue
    /\ success = FALSE
    /\ outcome = "none"
    /\ result = <<>>

\* Entering _minimize_objective with its three arguments.
Enter(obj, n, nonneg) ==
    /\ pc' = "called"
    /\ objective' = obj
    /\ n_securities' = n
    /\ non_negative_weights' = nonneg
    /\ UNCHANGED <<rng_state, x0, bounds, x, fx, success, outcome, result>>

\* min_risk(expected_returns, covariance), lines 38-39
min_risk(r, cov) ==
    /\ pc = "idle"
    /\ op' = "min_risk"
    /\ expected_returns' = r
    /\ covariance' = cov
    /\ Enter(MinRiskObjective(r, cov), Shape0(cov), TRUE)

\* max_sharpe(expected_returns, covariance), lines 52-53
max_sharpe(r, cov) ==
    /\ pc = "idle"
    /\ op' = "max_sharpe"
    /\ expected_returns' = r
    /\ covariance' = cov
    /\ Enter(MaxSharpeObjective(r, cov), Shape0(cov), TRUE)

\* A direct call of _minimize_objective(objective, n_securities, non_negative_weights)
minimize_objective(obj, n, nonneg) ==
    /\ pc = "idle"
    /\ op' = "_minimize_objective"
    /\ UNCHANGED <<expected_returns, covariance>>
    /\ Enter(obj, n, nonneg)

\* Lines 18-24: the draw from the global generator, x0 /= x0, the bounds list,
\* and the solver's first evaluation of the objective at x0.
DrawX0 ==
    /\ pc = "called"
    /\ \E d \in RandomDraws(n_securities) :
        /\ x0' = SelfDivide(d)
        /\ rng_state' = (rng_state + n_securities) % RngPeriod
    /\ bounds' = Bounds(n_securities, non_negative_weights)
    /\ x' = x0'
    /\ fx' = Eval(objective, x0')
    /\ pc' = "minimize"
    /\ UNCHANGED <<op, expected_returns, covariance, objective, n_securities,
                   non_negative_weights, success, outcome, result>>

\* The objective raised ValueError: it propagates through minimize to the caller.
SolverRaise ==
    /\ pc = "minimize"
    /\ fx.t = "raise"
    /\ pc' = "done"
    /\ outcome' = "error"
    /\ UNCHANGED <<op, expected_returns, covariance, objective, n_securities,
                   non_negative_weights, rng_state, x0, bounds, x, fx, success,
                   result>>

\* The points one iteration can move to: from a point off the constraint, any
\* point of the bounds and the constraint; from a point on it, a neighbour
\* whose objective value is not worse.
Steps(obj, w, bnds) ==
    IF InBounds(w, bnds) /\ Constraint(w) = 0
    THEN { v \in Neighbours(w, bnds) : ~Less(Eval(obj, w), Eval(obj, v)) }
    ELSE Feasible(Len(w), bnds)

\* One iteration: a step, and the evaluation of the objective at the new point.
SolverStep ==
    /\ pc = "minimize"
    /\ Finite(fx)
    /\ ~IsLocalMin(objective, x, bounds)
    /\ \E w \in Steps(objective, x, bounds) :
        /\ x' = w
        /\ fx' = Eval(objective, w)
    /\ UNCHANGED <<pc, op, expected_returns, covariance, objective, n_securities,
                   non_negative_weights, rng_state, x0, bounds, success, outcome,
                   result>>

\* The solver ends with success = True at a local minimum.
SolverConverge ==
    /\ pc = "minimize"
    /\ Finite(fx)
    /\ IsLocalMin(objective, x, bounds)
    /\ success' = TRUE
    /\ pc' = "solved"
    /\ UNCHANGED <<op, expected_returns, covariance, objective, n_securities,
                   non_negative_weights, rng_state, x0, bounds, x, fx, outcome,
                   result>>

\* The solver was fed inf or nan: it ends with success = False, and res.x is
\* the iterate it stands on or nan.
SolverFail ==
    /\ pc = "minimize"
    /\ NonFinite(fx)
    /\ success' = FALSE
    /\ x' \in {x, AllNaN(n_securities)}
    /\ pc' = "solved"
    /\ UNCHANGED <<op, expected_returns, covariance, objective, n_securities,
                   non_negative_weights, rng_state, x0, bounds, fx, outcome,
                   result>>

\* What `scipy.optimize.minimize(...).x` hands back from the solver's result.
ResultOf(resx, ok) == resx

\* Lines 20, 25, 39, 53: return minimize(...).x
Return ==
    /\ pc = "solved"
    /\ result' = ResultOf(x, success)
    /\ outcome' = "value"
    /\ pc' = "done"
    /\ UNCHANGED <<op, expected_returns, covariance, objective, n_securities,
                   non_negative_weights, rng_state, x0, bounds, x, fx, success>>

\* The caller goes on to its next call; only the generator keeps its state.
NextCall ==
    /\ pc = "done"
    /\ pc' = "idle"
    /\ op' = "none"
    /\ expected_returns' = <<>>
    /\ covariance' = <<>>
    /\ objective' = NoObjective
    /\ n_securities' = 0
    /\ non_negative_weights' = TRUE
    /\ x0' = <<>>
    /\ bounds' = <<>>
    /\ x' = <<>>
    /\ fx' = NoValue
    /\ success' = FALSE
    /\ outcome' = "none"
    /\ result' = <<>>
    /\ UNCHANGED rng_state

\* The objectives a direct caller hands over: the two the module builds, with
\* the number of rows of the matrix as n_securities.
Objectives ==
    { MinRiskObjective(<<>>, cov) : cov \in Covariances }
    \cup { MaxSharpeObjective(r, cov) : r \in Returns, cov \in Covariances }

Next ==
    \/ \E r \in Returns, cov \in Covariances : min_risk(r, cov)
    \/ \E r \in Returns, cov \in Covariances : max_sharpe(r, cov)
    \/ \E obj \in Objectives, nonneg \in BOOLEAN :
          minimize_objective(obj, Shape0(obj.covariance), nonneg)
    \/ DrawX0
    \/ SolverRaise
    \/ SolverStep
    \/ SolverConverge
    \/ SolverFail
    \/ Return
    \/ NextCall

Spec == Init /\ [][Next]_vars

----------------------------------------------------------------------------
\* Properties

Public == {"min_risk", "max_sharpe"}

\* A valid pair of dimension n: a square matrix and as many expected returns.
ValidInput(r, cov) == Shape0(cov) = Shape1(cov) /\ Len(r) = Shape0(cov)

Returned == pc = "done" /\ outcome = "value"

Abs(k) == IF k < 0 THEN 0 - k ELSE k

\* C1: every returned weight vector sums to 1, the iterate returned after a
\* failed solve included.
C1_SumToOne ==
    Returned => (~HasNaN(result) /\ Sum(result) = Scale)

\* C2: every entry of every returned weight vector lies in [0, 1] when
\* negative weights are disallowed and in [-1, 1] otherwise, and the bounds
\* list has one [lower, 1] pair per security.
C2_WithinBounds ==
    Returned =>
        LET lower == IF non_negative_weights THEN 0 ELSE 0 - Scale IN
        /\ Len(bounds) = n_securities
        /\ \A i \in 1..Len(bounds) : bounds[i] = <<lower, Scale>>
        /\ \A i \in 1..Len(result) :
              result[i] # NaN /\ lower <= result[i] /\ result[i] <= Scale

\* C3: min_risk and max_sharpe called with a covariance matrix that is not
\* square, or whose side differs from the length of expected_returns, fail
\* with an error and return no weight vector.
C3_MismatchRejected ==
    (pc = "done" /\ op \in Public /\ ~ValidInput(expected_returns, covariance))
        => outcome = "error"

\* C4: when the solver ends without success the caller gets something
\* distinguishable from a valid result, never the plain weight vector.
C4_FailureSurfaced ==
    (pc = "done" /\ fx.t # "raise" /\ ~success) => outcome # "value"

\* C5: in max_sharpe an evaluation of the objective at a zero-variance weight
\* vector is guarded: no inf or nan is fed to the solver.
C5_ZeroVarianceGuarded ==
    (/\ pc = "minimize"
     /\ objective.kind = "neg_sharpe"
     /\ fx.t # "raise"
     /\ ~HasNaN(x)
     /\ Quad(x, objective.covariance) = 0)
        => ~NonFinite(fx)

\* C6: for a valid pair of dimension n, min_risk and max_sharpe hand the
\* minimizer the security count n, the initial guess and the bounds list have
\* length n, and the call returns a weight vector of length n.
C6_LengthN ==
    (op \in Public /\ ValidInput(expected_returns, covariance)) =>
        LET n == Len(expected_returns) IN
        /\ n_securities = n
        /\ pc \in {"minimize", "solved", "done"} => (Len(x0) = n /\ Len(bounds) = n)
        /\ pc \in {"solved", "done"} => Len(x) = n
        /\ pc = "done" => (outcome = "value" /\ Len(result) = n)

\* C6 witness: max_sharpe has returned a vector for a valid pair of dimension 2.
C6_Witness ==
    /\ Returned
    /\ op = "max_sharpe"
    /\ ValidInput(expected_returns, covariance)
    /\ Len(expected_returns) = 2
    /\ Len(result) = 2
    /\ success

C8_NoSideEffect ==
    [][/\ rng_state' = rng_state
       /\ (pc # "idle" /\ pc' # "idle") =>
             (expected_returns' = expected_returns /\ covariance' = covariance)]_vars

\* C9: whatever the random draw (0 included), the initial guess after
\* x0 /= x0 is the all-ones vector of length n, without nan.
C9_AllOnes ==
    pc \in {"minimize", "solved", "done"} => x0 = Ones(n_securities)

\* C10: for n = 2 and covariance [[a, 0], [0, b]] with a, b > 0, min_risk
\* returns the minimizer of the variance over the feasible set,
\* w1 = b / (a + b) and w2 = a / (a + b), to the resolution of the weights.
C10_DiagonalOptimum ==
    (/\ pc = "done"
     /\ op = "min_risk"
     /\ Shape0(covariance) = 2
     /\ Shape1(covariance) = 2
     /\ covariance[1][1] > 0
     /\ covariance[2][2] > 0
     /\ covariance[1][2] = 0
     /\ covariance[2][1] = 0)
        =>
        LET a == covariance[1][1]
            b == covariance[2][2]
        IN  /\ outcome = "value"
            /\ Len(result) = 2
            /\ ~HasNaN(result)
            /\ result \in Feasible(2, bounds)
            /\ \A v \in Feasible(2, bounds) :
                  Quad(result, covariance) <= Quad(v, covariance)
            /\ 2 * Abs(result[1] * (a + b) - b * Scale) <= a + b
            /\ 2 * Abs(result[2] * (a + b) - a * Scale) <= a + b

====
